---- MODULE Spec2Model ----
(***************************************************************************)
(* A model of serialize (src/src/serialize.js) of color.js: one call of    *)
(* serialize(color, options), statement by statement, over a registry of   *)
(* colour spaces and their format descriptors.                             *)
(*                                                                         *)
(* Numbers are fixed-point integers (value * Scale).  JavaScript's         *)
(* undefined/null/true/false, where a slot can also hold a string, are the *)
(* strings "undefined", "null", "true", "false".  Objects and arrays live  *)
(* in a heap (heap, arrays) so that aliasing and in-place mutation by the  *)
(* collaborators are visible.                                              *)
(***************************************************************************)
EXTENDS Integers, Sequences, FiniteSets, TLC

\* ------------------------------------------------------------- bounds
\* Coordinates' first component ranges over -1 .. MaxCoord (in units).
MaxCoord == 2
\* Explicit options.precision values are 1 .. MaxPrecision.
MaxPrecision == 2

\* ------------------------------------------------------------ numbers
Scale == 10^6
Undefined == "undefined"

Abs(n) == IF n < 0 THEN -n ELSE n

Digits == <<"0", "1", "2", "3", "4", "5", "6", "7", "8", "9">>

RECURSIVE NatText(_)
NatText(n) == IF n < 10 THEN Digits[n + 1]
              ELSE NatText(n \div 10) \o Digits[(n % 10) + 1]

\* The digits of a fraction f / unit (0 < f < unit), trailing zeros dropped.
RECURSIVE FracText(_, _)
FracText(f, unit) ==
    IF f = 0 THEN ""
    ELSE Digits[((f * 10) \div unit) + 1] \o FracText((f * 10) % unit, unit)

\* JavaScript's Number-to-string conversion (template literal, n + unit) of
\* the fixed-point number n.
NumText(n) ==
    LET a == Abs(n)
        whole == NatText(a \div Scale)
        frac == a % Scale
    IN  (IF n < 0 THEN "-" ELSE "")
        \o whole
        \o (IF frac = 0 THEN "" ELSE "." \o FracText(frac, Scale))

RECURSIVE NumDigits(_)
NumDigits(n) == IF n < 10 THEN 1 ELSE 1 + NumDigits(n \div 10)

RECURSIVE Pow10(_)
Pow10(k) == IF k <= 0 THEN 1 ELSE 10 * Pow10(k - 1)

\* util.toPrecision: n rounded (half up on the magnitude) to `precision`
\* significant digits.
toPrecision(n, precision) ==
    IF n = 0 THEN 0
    ELSE LET a == Abs(n)
             d == NumDigits(a)
             unit == Pow10(d - precision)
             r == ((a + (unit \div 2)) \div unit) * unit
         IN  IF n < 0 THEN -r ELSE r

\* util.serializeNumber(n, {precision, unit}).
serializeNumber(n, precision, unit) ==
    NumText(toPrecision(n, precision)) \o (IF unit = Undefined THEN "" ELSE unit)

\* defaults.precision
DefaultPrecision == 5

\* JavaScript truthiness of a flag held as a string.
Truthy(x) == x \notin {"undefined", "null", "false", ""}

\* ------------------------------------------------------------- spaces
\* The registry's spaces, in registration order.
SpaceIds == <<"srgb", "p3", "lab">>

SpaceSet == {SpaceIds[i] : i \in 1..Len(SpaceIds)}

\* A space's CSS-facing id (space.cssId), when it has one.
SpaceCssId(s) == IF s = "p3" THEN "display-p3" ELSE Undefined

\* Each space's coordinates are the srgb coordinates shifted by its offset,
\* and its gamut is [lo, hi] on every coordinate.
SpaceOffset(s) == CASE s = "srgb" -> 0 [] s = "p3" -> 1 [] OTHER -> 2
SpaceLo(s) == 0
SpaceHi(s) == CASE s = "srgb" -> Scale [] s = "p3" -> 2 * Scale [] OTHER -> 4 * Scale

\* to(color, space): the coordinates of a value of space `from` in space `target`.
ConvertCoords(cs, from, target) ==
    [i \in 1..Len(cs) |-> cs[i] + (SpaceOffset(target) - SpaceOffset(from)) * Scale]

\* checkInGamut(color) on a value record.
checkInGamut(v) ==
    \A i \in 1..Len(v.coords) :
        v.coords[i] >= SpaceLo(v.space) /\ v.coords[i] <= SpaceHi(v.space)

Clip(c, s) == IF c < SpaceLo(s) THEN SpaceLo(s)
              ELSE IF c > SpaceHi(s) THEN SpaceHi(s) ELSE c

\* toGamut(color, method): the selected method clips every coordinate; the
\* default method (no selector) also pulls the value to the clipped gray of
\* its first coordinate.  Either result is in gamut.
MapToGamut(v, selector) ==
    IF selector = Undefined
    THEN [i \in 1..Len(v.coords) |-> Clip(v.coords[1], v.space)]
    ELSE [i \in 1..Len(v.coords) |-> Clip(v.coords[i], v.space)]

\* ------------------------------------------------------------ formats
\* A format descriptor.  serialize is whether the descriptor has a serialize
\* hook; slot records the catalog entry the descriptor was registered under
\* (descriptors are objects: two entries are never the same object).
Fmt(type, name, id, ids, space, toGamut, alpha, commas, serialize) ==
    [type |-> type, name |-> name, id |-> id, ids |-> ids, space |-> space,
     toGamut |-> toGamut, alpha |-> alpha, commas |-> commas,
     serialize |-> serialize, slot |-> ""]

\* What getFormat and findFormat return for "no such format".
NoFormat ==
    [Fmt("null", Undefined, Undefined, <<>>, Undefined, Undefined, Undefined,
         FALSE, FALSE) EXCEPT !.slot = "none"]

\* ColorSpace.DEFAULT_FORMAT
DEFAULT_FORMAT ==
    [Fmt("functions", "color", Undefined, <<>>, Undefined, Undefined, Undefined,
         FALSE, FALSE) EXCEPT !.slot = "DEFAULT_FORMAT"]

\* The format ids a space's catalog may hold.
CatalogIds == {"default", "fmt"}

\* space.getFormat(id) over the registry reg.
getFormat(reg, space, id) ==
    IF id \in DOMAIN reg[space] THEN reg[space][id] ELSE NoFormat

\* ColorSpace.findFormat(id): the first match in registration order.
findFormat(reg, id) ==
    LET hits == {i \in 1..Len(SpaceIds) : getFormat(reg, SpaceIds[i], id) # NoFormat}
    IN  IF hits = {} THEN NoFormat
        ELSE getFormat(reg, SpaceIds[CHOOSE i \in hits : \A j \in hits : i <= j], id)

\* a ?? b
Coalesce(a, b) == IF a # NoFormat THEN a ELSE b

\* The mutation of ResolveFormat that tries the space's own default before
\* the registry-wide search.
ResolveFormatDefaultFirst(reg, space, id) ==
    Coalesce(getFormat(reg, space, id),
    Coalesce(getFormat(reg, space, "default"),
    Coalesce(findFormat(reg, id),
             DEFAULT_FORMAT)))

\* serialize.js lines 32-35.
ResolveFormat(reg, space, id) ==
    Coalesce(getFormat(reg, space, id),
    Coalesce(findFormat(reg, id),
    Coalesce(getFormat(reg, space, "default"),
             DEFAULT_FORMAT)))

\* ------------------------------------------------------------ options
\* options.alpha as the caller gives it: absent, a boolean, a string, or an
\* object {type, include}.
AlphaOpt(kind, value, type, include) ==
    [kind |-> kind, value |-> value, type |-> type, include |-> include]

AlphaAbsent == AlphaOpt("undefined", Undefined, Undefined, Undefined)

AlphaOpts ==
    {AlphaAbsent,
     AlphaOpt("boolean", "true", Undefined, Undefined),
     AlphaOpt("boolean", "false", Undefined, Undefined),
     AlphaOpt("string", "<percentage>", Undefined, Undefined),
     AlphaOpt("string", "<number>", Undefined, Undefined),
     AlphaOpt("object", Undefined, Undefined, "true"),
     AlphaOpt("object", Undefined, Undefined, "false"),
     AlphaOpt("object", Undefined, "<percentage>", "true"),
     AlphaOpt("object", Undefined, "<percentage>", Undefined)}

\* options.precision: absent, null, or a number of significant digits.
PrecisionAbsent == [tag |-> "undefined", n |-> 0]
PrecisionNull == [tag |-> "null", n |-> 0]
PrecisionOpts ==
    {PrecisionAbsent, PrecisionNull} \cup {[tag |-> "number", n |-> k] : k \in 1..MaxPrecision}

Opts(format, inGamut, alpha, precision) ==
    [format |-> format, inGamut |-> inGamut, alpha |-> alpha, precision |-> precision]

DefaultOpts == Opts(Undefined, Undefined, AlphaAbsent, PrecisionAbsent)

\* ------------------------------------------------------------- inputs
Value(space, coords, alpha) == [space |-> space, coords |-> coords, alpha |-> alpha]

CoordsOf(c) == <<c * Scale, Scale \div 2, 0>>

\* Which catalog entries exist: layout[s][k].
Layouts == [SpaceSet -> [CatalogIds -> BOOLEAN]]

FullLayout == [s \in SpaceSet |-> [k \in CatalogIds |-> TRUE]]

\* The registry in which every existing catalog entry is a copy of probe.
Registry(layout, probe) ==
    [s \in SpaceSet |->
        [k \in CatalogIds |->
            IF layout[s][k] THEN [probe EXCEPT !.slot = s \o "/" \o k] ELSE NoFormat]]

PlainFormat ==
    Fmt("functions", "color", Undefined, <<>>, Undefined, Undefined, Undefined, FALSE, FALSE)

Scenario(layout, probe, value, opts) ==
    [registry |-> Registry(layout, probe), value |-> value, options |-> opts]

\* Every catalog layout, every requested format id.
ResolveScenarios ==
    {Scenario(l, p, Value(s, CoordsOf(2), Scale \div 2),
              [DefaultOpts EXCEPT !.format = f]) :
        l \in Layouts,
        p \in {PlainFormat,
               Fmt("custom", Undefined, Undefined, <<>>, "lab", Undefined, Undefined,
                   FALSE, TRUE),
               Fmt("custom", Undefined, Undefined, <<>>, Undefined, Undefined, Undefined,
                   FALSE, FALSE)},
        s \in {"srgb", "p3"},
        f \in {Undefined, "default", "fmt", "nope"}}

\* Every gamut flag against every format default, target space and kind.
GamutScenarios ==
    {Scenario(FullLayout,
              Fmt(k[1], "color", Undefined, <<>>, fs, tg, Undefined, FALSE, k[2]),
              Value(s, CoordsOf(c), Scale \div 2),
              [DefaultOpts EXCEPT !.inGamut = g]) :
        k \in {<<"functions", FALSE>>, <<"custom", TRUE>>, <<"custom", FALSE>>},
        fs \in {Undefined} \cup SpaceSet,
        tg \in {Undefined, "true", "clip"},
        s \in {"srgb", "p3"},
        c \in -1..MaxCoord,
        g \in {Undefined, "true", "false", "clip"}}

\* Every alpha option against every format alpha flag, alpha and precision.
AlphaScenarios ==
    {Scenario(FullLayout,
              Fmt("functions", n, Undefined, <<>>, Undefined, Undefined, fa, cm, FALSE),
              Value("srgb", CoordsOf(c), a),
              [DefaultOpts EXCEPT !.alpha = ao, !.precision = p]) :
        n \in {"color", "rgb"},
        fa \in {Undefined, "true", "false"},
        cm \in BOOLEAN,
        c \in {1, MaxCoord},
        a \in {Scale, Scale \div 2, 123456},
        ao \in AlphaOpts,
        p \in PrecisionOpts}

\* Every functional name against every source of the color() space argument.
NameScenarios ==
    {Scenario(FullLayout,
              Fmt("functions", n, id, ids, fs, Undefined, Undefined, FALSE, FALSE),
              Value(s, CoordsOf(1), a),
              [DefaultOpts EXCEPT !.inGamut = g]) :
        n \in {Undefined, "color", "rgb"},
        id \in {Undefined, "fmt-id"},
        ids \in {<<>>, <<"ids-0", "ids-1">>},
        fs \in {Undefined} \cup SpaceSet,
        s \in {"srgb", "p3"},
        a \in {Scale, Scale \div 2},
        g \in {Undefined, "false"}}

Scenarios == ResolveScenarios \cup GamutScenarios \cup AlphaScenarios \cup NameScenarios

\* -------------------------------------------------------------- state
VARIABLES
    registry,   \* ColorSpace.registry: space id -> format id -> descriptor
    options,    \* the caller's options object
    before,     \* the caller's value as it was when serialize was called
    heap,       \* colour objects: id -> [space, coords (an array id), alpha]
    arrays,     \* coordinate arrays: id -> the array's elements
    pc,         \* the statement serialize is at
    color,      \* the local `color`: an object id
    formatId,   \* the local `formatId`
    format,     \* the local `format`
    coords,     \* the local `coords`: an array id
    inGamut,    \* the local `inGamut`
    ret,        \* <<>> or <<the returned string>>
    thrown,     \* <<>> or <<the error thrown>>
    log,        \* the calls serialize has made, in order
    checked,    \* <<>> or <<the value checkInGamut was given>>
    mapped,     \* <<>> or <<toGamut's argument, selector and result>>
    rendered,   \* <<>> or <<what serializeCoords or the hook was given>>
    locals      \* <<>> or <<the functional branch's locals>>

vars == <<registry, options, before, heap, arrays, pc, color, formatId, format,
          coords, inGamut, ret, thrown, log, checked, mapped, rendered, locals>>

ObjIds == {"input", "normalized", "converted", "clone", "mapped"}
ArrIds == ObjIds \cup {"slice"}

NoObj == [space |-> Undefined, coords |-> Undefined, alpha |-> 0]

\* The value held by object o of heap h with arrays a.
Deref(h, a, o) == Value(h[o].space, a[h[o].coords], h[o].alpha)

\* The object o2 allocated in (h, a) as a copy (own coords array) of value v.
Alloc(h, a, o2, v) ==
    [heap |-> [h EXCEPT ![o2] = [space |-> v.space, coords |-> o2, alpha |-> v.alpha]],
     arrays |-> [a EXCEPT ![o2] = v.coords]]

\* The mutation of StepOrder that checks and maps the gamut before the
\* conversion to the format's space.
StepOrderGamutFirst ==
    <<"getColor", "resolveFormat", "sliceCoords", "gamut", "convert", "render">>

\* The statements of serialize, in program order (lines 29, 31-35, 37-41,
\* 47-49, 51-54, 56-103).
StepOrder ==
    <<"getColor", "resolveFormat", "convert", "sliceCoords", "gamut", "render">>

After(step) ==
    LET i == CHOOSE k \in 1..Len(StepOrder) : StepOrder[k] = step
    IN  IF i < Len(StepOrder) THEN StepOrder[i + 1] ELSE "done"

Init ==
    \E sc \in Scenarios :
        /\ registry = sc.registry
        /\ options = sc.options
        /\ before = sc.value
        /\ heap = [o \in ObjIds |->
                     IF o = "input"
                     THEN [space |-> sc.value.space, coords |-> "input",
                           alpha |-> sc.value.alpha]
                     ELSE NoObj]
        /\ arrays = [a \in ArrIds |-> IF a = "input" THEN sc.value.coords ELSE <<>>]
        /\ pc = StepOrder[1]
        /\ color = "input"
        /\ formatId = Undefined
        /\ format = NoFormat
        /\ coords = Undefined
        /\ inGamut = Undefined
        /\ ret = <<>>
        /\ thrown = <<>>
        /\ log = <<>>
        /\ checked = <<>>
        /\ mapped = <<>>
        /\ rendered = <<>>
        /\ locals = <<>>

\* ---------------------------------------------------------- serialize
\* Line 29: color = getColor(color).  getColor hands a colour object back as
\* it is and builds a new object from any other input shape.
GetColor ==
    /\ pc = "getColor"
    /\ \E fresh \in BOOLEAN :
        LET m == Alloc(heap, arrays, "normalized", Deref(heap, arrays, "input"))
        IN  /\ heap' = IF fresh THEN m.heap ELSE heap
            /\ arrays' = IF fresh THEN m.arrays ELSE arrays
            /\ color' = IF fresh THEN "normalized" ELSE "input"
    /\ log' = Append(log, "getColor")
    /\ pc' = After("getColor")
    /\ UNCHANGED <<registry, options, before, formatId, format, coords, inGamut,
                   ret, thrown, checked, mapped, rendered, locals>>

\* Line 22: format = "default" when options.format is absent.
RequestedFormat(opts) == IF opts.format = Undefined THEN "default" ELSE opts.format

\* Lines 31-35.
ResolveFormatStep ==
    /\ pc = "resolveFormat"
    /\ formatId' = RequestedFormat(options)
    /\ format' = ResolveFormat(registry, heap[color].space, RequestedFormat(options))
    /\ log' = Append(log, "resolveFormat")
    /\ pc' = After("resolveFormat")
    /\ UNCHANGED <<registry, options, before, heap, arrays, color, coords, inGamut,
                   ret, thrown, checked, mapped, rendered, locals>>

\* Line 37: format.space && format.space !== color.space.
NeedsConversion(fmt, space) == Truthy(fmt.space) /\ fmt.space # space

\* Lines 37-41: color = to(color, format.space), a new object.
Convert ==
    /\ pc = "convert"
    /\ IF NeedsConversion(format, heap[color].space)
       THEN LET v == Deref(heap, arrays, color)
                m == Alloc(heap, arrays, "converted",
                           Value(format.space,
                                 ConvertCoords(v.coords, v.space, format.space),
                                 v.alpha))
            IN  /\ heap' = m.heap
                /\ arrays' = m.arrays
                /\ color' = "converted"
                /\ log' = Append(log, "to")
       ELSE UNCHANGED <<heap, arrays, color, log>>
    /\ pc' = After("convert")
    /\ UNCHANGED <<registry, options, before, formatId, format, coords, inGamut,
                   ret, thrown, checked, mapped, rendered, locals>>

\* Line 47: color.coords.slice() is a new array.
SliceTarget(ref) == "slice"

\* The mutation of EffectiveFlag that drops the format's toGamut default.
EffectiveFlagOptionOnly(opts, fmt) ==
    IF opts.inGamut = Undefined THEN "true" ELSE opts.inGamut

\* The mutation of EffectiveFlag that applies the default (true) to a false
\* options.inGamut as well.
EffectiveFlagDefaultOnFalse(opts, fmt) ==
    IF Truthy(opts.inGamut) THEN opts.inGamut ELSE "true"

\* Lines 23 and 49: inGamut = true when absent; inGamut ||= format.toGamut.
EffectiveFlag(opts, fmt) ==
    LET given == IF opts.inGamut = Undefined THEN "true" ELSE opts.inGamut
    IN  IF Truthy(given) THEN given ELSE fmt.toGamut

\* Lines 47-49.
SliceCoords ==
    /\ pc = "sliceCoords"
    /\ coords' = SliceTarget(heap[color].coords)
    /\ arrays' = [arrays EXCEPT ![SliceTarget(heap[color].coords)] =
                                    arrays[heap[color].coords]]
    /\ inGamut' = EffectiveFlag(options, format)
    /\ pc' = After("sliceCoords")
    /\ UNCHANGED <<registry, options, before, heap, color, formatId, format,
                   ret, thrown, log, checked, mapped, rendered, locals>>

\* Line 53: inGamut === true ? undefined : inGamut.
GamutSelector(flag) == IF flag = "true" THEN Undefined ELSE flag

\* The mutation of CloneTarget that hands toGamut the colour itself.
CloneTargetSelf(o) == o

\* Line 53: clone(color) is a new object.
CloneTarget(o) == "clone"

\* Line 51: inGamut && !checkInGamut(color).
NeedsMapping(flag, v) == Truthy(flag) /\ ~checkInGamut(v)

\* Lines 51-54.  toGamut may write its result into the object it is given
\* and return it, or return a new object.
Gamut ==
    /\ pc = "gamut"
    /\ LET v == Deref(heap, arrays, color)
       IN  IF NeedsMapping(inGamut, v)
           THEN LET t == CloneTarget(color)
                    c == IF t = color THEN [heap |-> heap, arrays |-> arrays]
                         ELSE Alloc(heap, arrays, t, v)
                    sel == GamutSelector(inGamut)
                    arg == Deref(c.heap, c.arrays, t)
                    res == MapToGamut(arg, sel)
                IN  /\ \E inPlace \in BOOLEAN :
                        IF inPlace
                        THEN /\ heap' = c.heap
                             /\ arrays' = [c.arrays EXCEPT ![c.heap[t].coords] = res]
                             /\ coords' = c.heap[t].coords
                        ELSE LET m == Alloc(c.heap, c.arrays, "mapped",
                                            Value(arg.space, res, arg.alpha))
                             IN  /\ heap' = m.heap
                                 /\ arrays' = m.arrays
                                 /\ coords' = "mapped"
                    /\ checked' = <<v>>
                    /\ mapped' = <<[arg |-> arg, selector |-> sel, result |-> res]>>
                    /\ log' = log \o <<"checkInGamut", "toGamut">>
           ELSE /\ checked' = IF Truthy(inGamut) THEN <<v>> ELSE checked
                /\ log' = IF Truthy(inGamut) THEN Append(log, "checkInGamut") ELSE log
                /\ UNCHANGED <<heap, arrays, coords, mapped>>
    /\ pc' = After("gamut")
    /\ UNCHANGED <<registry, options, before, color, formatId, format, inGamut,
                   ret, thrown, rendered, locals>>

\* Array.prototype.join.
RECURSIVE Join(_, _)
Join(strs, sep) ==
    IF Len(strs) = 0 THEN ""
    ELSE IF Len(strs) = 1 THEN strs[1]
    ELSE strs[1] \o sep \o Join(Tail(strs), sep)

\* Line 21: precision = defaults.precision when options.precision is absent
\* (null stays null).
Precision(opts) ==
    IF opts.precision.tag = "undefined"
    THEN [tag |-> "number", n |-> DefaultPrecision]
    ELSE opts.precision

\* format.serializeCoords(coords, precision, coordFormat) with no coordinate
\* format override: each coordinate as a number at the precision, or as it
\* is when the precision is null.
serializeCoords(cs, precision) ==
    [i \in 1..Len(cs) |->
        IF precision.tag = "null" THEN NumText(cs[i])
        ELSE serializeNumber(cs[i], precision.n, Undefined)]

\* A custom format's serialize hook: some string of its three arguments.
Hook(cs, alpha, opts) ==
    "#" \o Join([i \in 1..Len(cs) |-> NumText(cs[i])], "_")
        \o "@" \o NumText(alpha) \o "!" \o opts.inGamut

\* What a callee that scribbles on the array it is given leaves in it.
Clobbered(cs) == [i \in 1..Len(cs) |-> 0 - Scale]

\* Lines 58 and 68: the array rendered is the local `coords`.
RenderArray(working, own) == working

\* Lines 56-59: a custom format with a serialize hook.
RenderCustom ==
    /\ pc = "render"
    /\ format.type = "custom"
    /\ format.serialize
    /\ LET a == RenderArray(coords, heap[color].coords)
       IN  /\ ret' = <<Hook(arrays[a], heap[color].alpha, options)>>
           /\ rendered' = <<[via |-> "serialize", coords |-> arrays[a],
                             alpha |-> heap[color].alpha, options |-> options]>>
           /\ \E clobber \in BOOLEAN :
                arrays' = IF clobber
                          THEN [arrays EXCEPT ![a] = Clobbered(arrays[a])]
                          ELSE arrays
    /\ log' = Append(log, "render")
    /\ pc' = After("render")
    /\ UNCHANGED <<registry, options, before, heap, color, formatId, format,
                   coords, inGamut, thrown, checked, mapped, locals>>

\* The mutation of ParseOnlyError that names the resolved format, not the
\* requested one.
ParseOnlyErrorResolved(requested, fmt) ==
    [type |-> "TypeError", format |-> fmt.slot]

\* Line 61: new TypeError(`format ${formatId} can only be used to parse
\* colors, not for serialization`).
ParseOnlyError(requested, fmt) ==
    [type |-> "TypeError", format |-> requested]

\* Lines 60-62: a custom format without a serialize hook.
ThrowParseOnly ==
    /\ pc = "render"
    /\ format.type = "custom"
    /\ ~format.serialize
    /\ thrown' = <<ParseOnlyError(formatId, format)>>
    /\ pc' = "thrown"
    /\ UNCHANGED <<registry, options, before, heap, arrays, color, formatId,
                   format, coords, inGamut, ret, log, checked, mapped, rendered,
                   locals>>

\* Line 66: format.name || "color".
FunctionName(fmt) == IF Truthy(fmt.name) THEN fmt.name ELSE "color"

\* The mutation of CssId that always takes the id from the space.
CssIdOfSpace(fmt, space) ==
    IF Truthy(SpaceCssId(space)) THEN SpaceCssId(space) ELSE space

\* Line 72: format.id || format.ids?.[0] || color.space.cssId || color.space.id.
CssId(fmt, space) ==
    IF Truthy(fmt.id) THEN fmt.id
    ELSE IF Len(fmt.ids) > 0 /\ Truthy(fmt.ids[1]) THEN fmt.ids[1]
    ELSE IF Truthy(SpaceCssId(space)) THEN SpaceCssId(space)
    ELSE space

\* Lines 79-81: a boolean becomes {include}, a string {type}; an object and
\* undefined stay.
NormalizeAlphaFormat(ao) ==
    CASE ao.kind = "boolean" -> [type |-> Undefined, include |-> ao.value]
      [] ao.kind = "string" -> [type |-> ao.value, include |-> Undefined]
      [] OTHER -> [type |-> ao.type, include |-> ao.include]

\* Line 83: alphaFormat?.type ?? "<number>".
AlphaType(af) == IF af.type = Undefined THEN "<number>" ELSE af.type

\* Line 84.
SerializeAlpha(af, fmt, alpha) ==
    \/ af.include = "true"
    \/ fmt.alpha = "true"
    \/ (af.include # "false" /\ fmt.alpha # "false" /\ alpha < Scale)

\* The mutation of AlphaText that converts to a percentage whatever the
\* precision.
AlphaTextPercentAlways(alpha, alphaType, precision) ==
    LET unit == IF alphaType = "<percentage>" THEN "%" ELSE Undefined
        a == IF alphaType = "<percentage>" THEN alpha * 100 ELSE alpha
    IN  IF precision.tag # "null"
        THEN serializeNumber(a, precision.n, unit)
        ELSE NumText(a) \o (IF unit = Undefined THEN "" ELSE unit)

\* Lines 88-97: the text of an included alpha.
AlphaText(alpha, alphaType, precision) ==
    IF precision.tag # "null"
    THEN IF alphaType = "<percentage>"
         THEN serializeNumber(alpha * 100, precision.n, "%")
         ELSE serializeNumber(alpha, precision.n, Undefined)
    ELSE NumText(alpha)

\* The mutation of StrAlpha that writes the slash form for both punctuations.
StrAlphaSlashOnly(commas, text) == " / " \o text

\* Line 99: `${format.commas ? "," : " /"} ${alpha}`.
StrAlpha(commas, text) == (IF commas THEN "," ELSE " /") \o " " \o text

\* Line 102: `${name}(${args.join(format.commas ? ", " : " ")}${strAlpha})`.
FunctionalString(name, args, commas, strAlpha) ==
    name \o "(" \o Join(args, IF commas THEN ", " ELSE " ") \o strAlpha \o ")"

\* Lines 64-103: the functional syntax.
RenderFunctional ==
    /\ pc = "render"
    /\ format.type # "custom"
    /\ LET a == RenderArray(coords, heap[color].coords)
           precision == Precision(options)
           name == FunctionName(format)
           coordArgs == serializeCoords(arrays[a], precision)
           args == IF name = "color"
                   THEN <<CssId(format, heap[color].space)>> \o coordArgs
                   ELSE coordArgs
           alpha == heap[color].alpha
           af == NormalizeAlphaFormat(options.alpha)
           include == SerializeAlpha(af, format, alpha)
           text == IF include THEN AlphaText(alpha, AlphaType(af), precision) ELSE ""
           strAlpha == IF include THEN StrAlpha(format.commas, text) ELSE ""
       IN  /\ ret' = <<FunctionalString(name, args, format.commas, strAlpha)>>
           /\ rendered' = <<[via |-> "serializeCoords", coords |-> arrays[a],
                             alpha |-> alpha, options |-> options]>>
           /\ locals' = <<[name |-> name, args |-> args, alpha |-> alpha,
                           alphaFormat |-> af, serializeAlpha |-> include,
                           alphaText |-> text, strAlpha |-> strAlpha]>>
           /\ \E clobber \in BOOLEAN :
                arrays' = IF clobber
                          THEN [arrays EXCEPT ![a] = Clobbered(arrays[a])]
                          ELSE arrays
    /\ log' = Append(log, "render")
    /\ pc' = After("render")
    /\ UNCHANGED <<registry, options, before, heap, color, formatId, format,
                   coords, inGamut, thrown, checked, mapped>>

Next ==
    \/ GetColor
    \/ ResolveFormatStep
    \/ Convert
    \/ SliceCoords
    \/ Gamut
    \/ RenderCustom
    \/ ThrowParseOnly
    \/ RenderFunctional

Spec == Init /\ [][Next]_vars

\* ------------------------------------------------------------- claims
\* The value serialize works on once the format is resolved: the caller's
\* value, in the format's space when the format names another space.
Converts == format.space # Undefined /\ format.space # before.space

WorkingValue ==
    IF Converts
    THEN Value(format.space,
               ConvertCoords(before.coords, before.space, format.space),
               before.alpha)
    ELSE before

PastResolve == formatId # Undefined
PastConvert == pc \in {"sliceCoords", "gamut", "render", "done", "thrown"}
PastGamut == pc \in {"render", "done", "thrown"}
Functional == pc = "done" /\ locals # <<>>

\* The first space, in registration order, whose catalog holds format id.
FirstSpaceWith(id) ==
    LET hits == {i \in 1..Len(SpaceIds) :
                    id \in CatalogIds /\ registry[SpaceIds[i]][id].type # "null"}
    IN  IF hits = {} THEN Undefined
        ELSE SpaceIds[CHOOSE i \in hits : \A j \in hits : i <= j]

\* C1: the format is the first defined of: the value's own space's format of
\* the requested id ("default" when options.format is absent), the first
\* format of that id in the registry, the own space's "default" format, and
\* DEFAULT_FORMAT; for every id, known or not, a descriptor results and
\* nothing is thrown.
C1_ResolutionOrder ==
    PastResolve =>
        LET id == IF options.format = Undefined THEN "default" ELSE options.format
            own == before.space
            known == id \in CatalogIds
        IN  /\ formatId = id
            /\ format.type # "null"
            /\ thrown # <<>> => (format.type = "custom" /\ ~format.serialize)
            /\ IF known /\ registry[own][id].type # "null"
               THEN format.slot = own \o "/" \o id
               ELSE IF FirstSpaceWith(id) # Undefined
               THEN format.slot = FirstSpaceWith(id) \o "/" \o id
               ELSE IF registry[own]["default"].type # "null"
               THEN format.slot = own \o "/default"
               ELSE format.slot = "DEFAULT_FORMAT" /\ format.name = "color"

\* An unknown id, no default in the value's own space although another space
\* has one: the call ends on the hard-coded fallback format.
C1_Witness ==
    /\ pc = "done"
    /\ formatId = "nope"
    /\ registry[before.space]["default"].type = "null"
    /\ \E s \in SpaceSet : registry[s]["default"].type # "null"
    /\ format = DEFAULT_FORMAT
    /\ ret # <<>>

\* The per-call alpha override: options.alpha as a boolean, or its include.
AlphaOverride ==
    CASE options.alpha.kind = "boolean" -> options.alpha.value
      [] options.alpha.kind = "object" -> options.alpha.include
      [] OTHER -> Undefined

\* C2: the alpha suffix is decided by strict priority: the per-call override,
\* then the format's alpha flag, then "alpha < 1".  An override of true
\* always includes alpha, an override of false always omits it.
C2_OverridePriority ==
    Functional =>
        LET included == locals[1].strAlpha # ""
        IN  CASE AlphaOverride = "true" -> included
              [] AlphaOverride = "false" -> ~included
              [] format.alpha = "true" -> included
              [] format.alpha = "false" -> ~included
              [] OTHER -> (included <=> before.alpha < Scale)

\* C3 as stated: with options.inGamut = false toGamut is never invoked and
\* the rendered coordinates are the (converted) value's own, for every format.
C3_NeverMappedWhenFalse ==
    options.inGamut = "false" =>
        /\ mapped = <<>>
        /\ rendered # <<>> => rendered[1].coords = WorkingValue.coords

\* C3 as amended: with options.inGamut = false and a resolved format that
\* has no truthy toGamut default, toGamut is never invoked and the rendered
\* coordinates are the (converted) value's own, in range or not.
C3_VerbatimWhenFalseAndNoFormatDefault ==
    (options.inGamut = "false" /\ PastResolve /\ format.toGamut \in {Undefined, "false"}) =>
        /\ mapped = <<>>
        /\ \A i \in 1..Len(log) : log[i] # "toGamut"
        /\ PastGamut => inGamut \in {Undefined, "false"}
        /\ rendered # <<>> => rendered[1].coords = WorkingValue.coords

C3_Witness ==
    /\ pc = "done"
    /\ options.inGamut = "false"
    /\ format.toGamut = Undefined
    /\ Converts
    /\ ~checkInGamut(WorkingValue)
    /\ rendered[1].coords = WorkingValue.coords
    /\ mapped = <<>>

\* options.inGamut (true when absent) OR the format's toGamut default.
ExpectedFlag ==
    CASE options.inGamut = Undefined -> "true"
      [] options.inGamut = "false" -> format.toGamut
      [] OTHER -> options.inGamut

WorkingCoords == IF mapped # <<>> THEN mapped[1].result ELSE WorkingValue.coords

SpaceArgument(space) == IF space = "p3" THEN "display-p3" ELSE space

C7_FunctionalShape ==
    Functional =>
        LET l == locals[1]
            joined == IF format.commas THEN Join(l.args, ", ") ELSE Join(l.args, " ")
            suffix == IF ~l.serializeAlpha THEN ""
                      ELSE IF format.commas THEN ", " \o l.alphaText
                      ELSE " / " \o l.alphaText
            plain == /\ before = Value("srgb", CoordsOf(1), Scale \div 2)
                     /\ options = DefaultOpts
                     /\ format.id = Undefined /\ format.ids = <<>>
                     /\ format.space = Undefined /\ format.alpha = Undefined
        IN  /\ ret = <<l.name \o "(" \o joined \o suffix \o ")">>
            /\ l.serializeAlpha => l.alphaText # ""
            /\ (plain /\ format.name = "rgb" /\ format.commas) =>
                    ret = <<"rgb(1, 0.5, 0, 0.5)">>
            /\ (plain /\ format.name = "rgb" /\ ~format.commas) =>
                    ret = <<"rgb(1 0.5 0 / 0.5)">>
            /\ (plain /\ format.name = "color" /\ ~format.commas) =>
                    ret = <<"color(srgb 1 0.5 0 / 0.5)">>
            /\ (plain /\ format.name = "color" /\ format.commas) =>
                    ret = <<"color(srgb, 1, 0.5, 0, 0.5)">>

C7_Witness ==
    /\ Functional
    /\ format.commas
    /\ locals[1].serializeAlpha
    /\ ret = <<"rgb(1, 0.5, 0, 0.5)">>

\* The alpha type asked for is "<percentage>".
AsksPercentage ==
    \/ options.alpha.kind = "string" /\ options.alpha.value = "<percentage>"
    \/ options.alpha.kind = "object" /\ options.alpha.type = "<percentage>"

\* C8: an included alpha, at a precision that is not null, is the number
\* formatter's text of alpha at that precision, of alpha * 100 with unit "%"
\* when the alpha type is "<percentage>"; at precision null it is alpha's
\* raw text, not multiplied and without "%", whatever the type.
C8_AlphaText ==
    (Functional /\ locals[1].serializeAlpha) =>
        LET text == locals[1].alphaText
            a == before.alpha
            p == options.precision
            digits == IF p.tag = "number" THEN p.n ELSE DefaultPrecision
        IN  /\ p.tag = "null" => text = NumText(a)
            /\ (p.tag # "null" /\ AsksPercentage) =>
                    text = serializeNumber(100 * a, digits, "%")
            /\ (p.tag # "null" /\ ~AsksPercentage) =>
                    text = serializeNumber(a, digits, Undefined)
            /\ (a = Scale \div 2 /\ AsksPercentage /\ p.tag = "undefined") => text = "50%"
            /\ (a = Scale \div 2 /\ AsksPercentage /\ p.tag = "null") => text = "0.5"
            /\ (a = 123456 /\ p.tag = "null") => text = "0.123456"
            /\ (a = 123456 /\ ~AsksPercentage /\ p.tag = "undefined") => text = "0.12346"
            /\ (a = 123456 /\ AsksPercentage /\ p.tag = "undefined") => text = "12.346%"
            /\ (a = Scale /\ ~AsksPercentage) => text = "1"

\* A percentage alpha at precision null: the raw value, no "%".
C8_Witness ==
    /\ Functional
    /\ AsksPercentage
    /\ options.precision.tag = "null"
    /\ before.alpha = 123456
    /\ locals[1].serializeAlpha
    /\ locals[1].alphaText = "0.123456"

\* The place of each logged call in the order the claim states.
Rank(call) ==
    CASE call = "getColor" -> 1
      [] call = "resolveFormat" -> 2
      [] call = "to" -> 3
      [] call = "checkInGamut" -> 4
      [] call = "toGamut" -> 5
      [] OTHER -> 6

Logged(call) == \E i \in 1..Len(log) : log[i] = call

C10_InputUnchanged ==
    /\ Deref(heap, arrays, "input") = before
    /\ rendered # <<>> => rendered[1].alpha = before.alpha
    /\ locals # <<>> => locals[1].alpha = before.alpha

\* getColor handed the caller's object back, the value was not converted, and
\* toGamut wrote its result into the object it was given (the clone); the
\* callee then scribbled on the array it was given.
C10_Witness ==
    /\ pc = "done"
    /\ color = "input"
    /\ mapped # <<>>
    /\ coords = "clone"
    /\ arrays["clone"] = Clobbered(before.coords)
    /\ rendered[1].coords # before.coords

====
